---- MODULE Spec2Model ----
(***************************************************************************)
(* Model of the mail-automation server (server/routes/emails.ts,           *)
(* server/routes/auth.ts, server/middleware/auth.ts,                       *)
(* server/services/emailService.ts, server/types/index.ts) and of the      *)
(* progressive loader of the client (src/pages/Home.tsx).                  *)
(*                                                                         *)
(* A request slot holds one HTTP request from its arrival to the moment    *)
(* its response is taken.  Every action is one turn of the Node event loop *)
(* (one callback together with the promise continuations it triggers).     *)
(***************************************************************************)
EXTENDS Integers, Sequences, FiniteSets, TLC

\* ------------------------------------------------------------------ bounds
MaxMail == 3        \* messages in the mailbox of the server specification
MaxReq == 2         \* request slots (requests served concurrently)
MaxIssued == 2      \* requests issued one after the other in the server specification
MaxConcMail == 2    \* messages in the mailbox of the concurrent specification
MaxDate == 2        \* receipt dates are 1..MaxDate
MaxPagingMail == 5  \* messages in the mailbox of the client specification
MaxRefresh == 1     \* refreshes started by the client in one behaviour
MaxFound == 42      \* sequence numbers reported by a search in the function specification
MaxBatch == 11      \* batchNumber of a page request in the function specification
MaxText == 2        \* texts of the messages of the text specification
MaxLength == 5000   \* length of a subject or body in the function specification

\* ------------------------------------------------------- program constants
BATCH_SIZE == 4     \* routes/emails.ts:271
TOTAL_EMAILS == 40  \* routes/emails.ts:272
SUB_BATCH == 2      \* routes/emails.ts:310 (and BATCH_SIZE of /, /fetch, /fetch-new)
LAST_N == 40        \* emailService.ts:103
maxBodyLength == 4000      \* types/index.ts:204
maxOriginalLength == 2000  \* types/index.ts:64
maxSubjectLength == 200    \* types/index.ts:210
BodyMarker == 28           \* types/index.ts:206, '\n[... content truncated ...]'.length
SubjectMarker == 3         \* types/index.ts:212, '...'.length

Reqs == 1..MaxReq
Dates == 1..MaxDate
ClockBase == MaxDate    \* the wall clock is later than every receipt date

VARIABLES
  mailbox,   \* the INBOX on the mail server: sequence of messages, index = sequence number
  req,       \* request slots
  cache,     \* emailSummaryCache: identity -> entry
  calls,     \* history: identity -> number of analyzeEmail calls made for it
  writes,    \* history: identity -> number of emailSummaryCache.set calls made for it
  issued,    \* number of requests issued so far (also drives the wall clock)
  client,    \* state of the Home component
  unit       \* the function application of the function specifications

vars == <<mailbox, req, cache, calls, writes, issued, client, unit>>

\* ------------------------------------------------------------ small helpers
Min(a, b) == IF a < b THEN a ELSE b

Count(f, x) == IF x \in DOMAIN f THEN f[x] ELSE 0

Bump(f, x) == (x :> (Count(f, x) + 1)) @@ f

Range(s) == {s[k] : k \in 1..Len(s)}

\* Array.prototype.slice(a, b) with 0-based, end-exclusive indices
Slice(s, a, b) == SubSeq(s, a + 1, Min(b, Len(s)))

\* Array.prototype.reverse
Reverse(s) == [k \in 1..Len(s) |-> s[Len(s) + 1 - k]]

\* place e after every element whose date is not greater (stable insertion)
RECURSIVE InsertByDate(_, _)
InsertByDate(s, e) ==
  IF s = <<>> THEN <<e>>
  ELSE IF e.date < Head(s).date THEN <<e>> \o s
  ELSE <<Head(s)>> \o InsertByDate(Tail(s), e)

RECURSIVE SortFrom(_, _)
SortFrom(acc, s) ==
  IF s = <<>> THEN acc ELSE SortFrom(InsertByDate(acc, Head(s)), Tail(s))

\* xs.sort((a, b) => a.date.getTime() - b.date.getTime()): stable, ascending
NoSort(s) == s
SortByDate(s) == SortFrom(<<>>, s)

IsSorted(s) == \A k \in 1..(Len(s) - 1) : s[k].date <= s[k + 1].date

\* ------------------------------------------------------------------ messages
\* mid: Message-ID header (0: none); idate: INTERNALDATE reported by the server
\* (0: none); hdate: Date header (0: none); bad: simpleParser rejects the message
Message(m, i, h, b) == [mid |-> m, idate |-> i, hdate |-> h, bad |-> b]

\* the wall clock read by new Date() while a request issued as number n is served
Now(n) == ClockBase + n

\* a Date object whose getTime() is NaN (0 stands for no date at all)
InvalidDate == 0 - 1

\* let finalDate = imapDate || parsed.date || new Date();
\* if (isNaN(finalDate.getTime())) finalDate = new Date()
FinalDateUnchecked(msg, now) ==
  IF msg.idate # 0 THEN msg.idate ELSE IF msg.hdate # 0 THEN msg.hdate ELSE now
FinalDate(msg, now) ==
  LET first == IF msg.idate # 0 THEN msg.idate
               ELSE IF msg.hdate # 0 THEN msg.hdate
               ELSE now
  IN IF first = InvalidDate THEN now ELSE first

\* id: parsed.messageId || `email-${seqno}-...-${finalDate.getTime()}-...`
EmailId(msg, seqno, now) ==
  IF msg.mid # 0 THEN <<"mid", msg.mid, 0>>
  ELSE <<"email", seqno, FinalDate(msg, now)>>

ParseEmail(msg, seqno, now) ==
  [id |-> EmailId(msg, seqno, now), seq |-> seqno, date |-> FinalDate(msg, now)]

\* ------------------------------------------------------------------ analysis
Unable ==
  [category |-> "General", summary |-> "Unable to analyze email content.", events |-> <<>>]

\* what analyzeEmail can resolve with: a parsed provider answer, or the default
\* of its catch block
AnalysisResults ==
  {[category |-> "Event", summary |-> "ok", events |-> <<"e">>], Unable}

Enriched(e, a) ==
  [id |-> e.id, seq |-> e.seq, date |-> e.date,
   category |-> a.category, summary |-> a.summary, events |-> a.events]

\* ------------------------------------------------- analyzeEmail (types/index.ts)
\* JSON values as JavaScript sees them: t is the type, s the text of a string,
\* l the elements of an array
JUndefined == [t |-> "undefined", s |-> "", l |-> <<>>]
JNull == [t |-> "null", s |-> "", l |-> <<>>]
JNumber == [t |-> "number", s |-> "7", l |-> <<>>]
JStr(x) == [t |-> "string", s |-> x, l |-> <<>>]
JList(x) == [t |-> "array", s |-> "", l |-> x]

\* the truthiness that `||` and `!` test
Truthy(v) ==
  CASE v.t \in {"undefined", "null"} -> FALSE
    [] v.t = "string" -> v.s # ""
    [] OTHER -> TRUE

\* a || b
OrElse(a, b) == IF Truthy(a) THEN a ELSE b

validCategories == {"Important-Academics", "Important-Deadline", "Event", "General"}

\* if (!validCategories.includes(parsed.category)) parsed.category = 'General'
KeepCategory(c) == c
CoerceCategory(c) ==
  IF c.t = "string" /\ c.s \in validCategories THEN c ELSE JStr("General")

\* the default of the catch block
DefaultAnalysis ==
  [category |-> JStr("General"), summary |-> JStr("Unable to analyze email content."),
   events |-> JList(<<>>)]

\* the early return for an email without subject and body
NoContentAnalysis ==
  [category |-> JStr("General"), summary |-> JStr("No email content to analyze."),
   events |-> JList(<<>>)]

\* What JSON.parse makes of a text.  t: "unparsable" (SyntaxError), "null",
\* "primitive" (number, string or boolean), "array" or "object"; the three
\* fields are those of an object (undefined for every other value)
Doc(t, c, m, e) == [t |-> t, category |-> c, summary |-> m, events |-> e]

CategoryValues ==
  {JStr(c) : c \in validCategories} \cup
  {JStr("Urgent"), JStr("event"), JStr(""), JUndefined, JNull, JNumber}

SummaryValues == {JStr("s"), JStr(""), JUndefined, JNumber}

EventsValues == {JList(<<>>), JList(<<"e">>), JStr("none"), JUndefined, JNull}

Docs ==
  {Doc(t, JUndefined, JUndefined, JUndefined) : t \in {"unparsable", "null", "primitive", "array"}}
    \cup {Doc("object", c, m, e) : c \in CategoryValues, m \in SummaryValues, e \in EventsValues}

\* how the provider wraps the document in the content of its message:
\* nothing around it, a ```json block, a ``` block, or prose around it
Wraps == {"plain", "fenceJson", "fence", "prose"}

\* the text handed to JSON.parse: the inside of a code block, and the part from
\* the first { to the last } when there is one; prose around anything but an
\* object stays in the text
JsonText(wrap, doc) ==
  IF wrap = "prose" /\ doc.t # "object"
  THEN Doc("unparsable", JUndefined, JUndefined, JUndefined)
  ELSE doc

\* what the call of the provider comes to
OutcomeKinds ==
  {"transport", "status401", "status500", "badBody", "errorPayload", "noChoices",
   "emptyChoices", "noContent", "blankContent", "content"}

Outcome(k, w, d) == [kind |-> k, wrap |-> w, doc |-> d]

ProviderOutcomes ==
  {Outcome(k, "plain", Doc("unparsable", JUndefined, JUndefined, JUndefined)) :
     k \in OutcomeKinds \ {"content"}}
    \cup {Outcome("content", w, d) : w \in Wraps, d \in Docs}

\* the email and the environment: has the email a subject or a body, is
\* OPENROUTER_API set
AnalyzeInputs == [content : BOOLEAN, key : BOOLEAN]

Return(v) == [t |-> "return", v |-> v]
Throw == [t |-> "throw", v |-> DefaultAnalysis]

\* the try block of analyzeEmail
AnalyzeBody(inp, o) ==
  IF ~inp.content THEN Return(NoContentAnalysis)
  ELSE IF ~inp.key THEN Throw
  ELSE IF o.kind # "content" THEN Throw
  ELSE LET parsed == JsonText(o.wrap, o.doc)
       IN CASE parsed.t \in {"unparsable", "null", "primitive"} -> Throw
            [] OTHER ->
                 Return([category |-> CoerceCategory(parsed.category),
                         summary |-> OrElse(parsed.summary, JStr("No summary available")),
                         events |-> OrElse(parsed.events, JList(<<>>))])

\* try { ... } catch (error) { return default }
Rethrow(b) == [raised |-> b.t = "throw", value |-> b.v]
CatchAll(b) == [raised |-> FALSE, value |-> b.v]

analyzeEmail(inp, o) == CatchAll(AnalyzeBody(inp, o))


\* ------------------------------------------ generateEmailReply and /generate-reply
\* what the content of the provider's message is made of: text only, a code
\* block only, or text with a code block
ReplyContents == {"text", "fenced", "mixed"}

\* content.trim() with every ```...``` block removed and trimmed again
EmailBody(c) == IF c = "fenced" THEN "" ELSE "reply text"

ReplyOutcomes ==
  {[kind |-> k, content |-> "text"] : k \in OutcomeKinds \ {"content"}}
    \cup {[kind |-> "content", content |-> c] : c \in ReplyContents}

\* fields: originalSubject, originalBody and userPrompt are all given;
\* key: OPENROUTER_API is set; re: the subject starts with "Re:"
ReplyInputs == [fields : BOOLEAN, key : BOOLEAN, re : BOOLEAN]

\* originalSubject.startsWith('Re:') ? originalSubject : `Re: ${originalSubject}`
ReplySubject(subject) == IF subject = "Re: s" THEN subject ELSE "Re: s"

Draft(subject, body) == [raised |-> FALSE, error |-> "", subject |-> subject, body |-> body]
Rejected(msg) == [raised |-> TRUE, error |-> msg, subject |-> "", body |-> ""]

\* generateEmailReply: every error of the try block is logged and thrown again
generateEmailReply(inp, o) ==
  IF ~inp.key THEN Rejected("OPENROUTER_API is not set in environment variables")
  ELSE CASE o.kind = "transport" -> Rejected("fetch failed")
         [] o.kind \in {"status401", "status500"} -> Rejected("OpenRouter API error: status")
         [] o.kind = "badBody" -> Rejected("invalid json response body")
         [] o.kind = "errorPayload" -> Rejected("OpenRouter API error: message")
         [] o.kind \in {"noChoices", "emptyChoices"} -> Rejected("OpenRouter API returned no choices")
         [] o.kind \in {"noContent", "blankContent"} -> Rejected("OpenRouter API returned empty response")
         [] OTHER -> Draft(ReplySubject(IF inp.re THEN "Re: s" ELSE "s"), EmailBody(o.content))

ReplyResp(status, error, message, subject, body) ==
  [status |-> status, error |-> error, message |-> message, subject |-> subject, body |-> body]

\* the catch block of the handler
ReplySubstituted(message) == ReplyResp(200, "", "", "Re: s", "Unable to generate a reply.")
ReplyFailed(message) == ReplyResp(500, "Failed to generate email reply", message, "", "")

\* the handler of POST /generate-reply, after authenticateToken
GenerateReply(inp, o) ==
  IF ~inp.fields THEN ReplyResp(400, "Missing required fields", "", "", "")
  ELSE LET reply == generateEmailReply(inp, o)
       IN IF reply.raised THEN ReplyFailed(reply.error)
          ELSE ReplyResp(200, "", "", reply.subject, reply.body)


\* ------------------------------------------------------------ authentication
NoToken == [email |-> "", sig |-> "", age |-> ""]

\* jwt.sign({email, id: email}, JWT_SECRET, {expiresIn: '7d'})
generateToken(email) == [email |-> email, sig |-> "JWT_SECRET", age |-> "fresh"]

\* the tokens a caller can present: one issued by a login, one issued more than
\* 7 days ago, one signed with another key
Tokens ==
  {generateToken("u"), [generateToken("u") EXCEPT !.age = "expired"],
   [generateToken("u") EXCEPT !.sig = "other"]}

\* the Authorization header: words is the number of its words separated by a
\* space (0: no header), token its second word
Header(w, t) == [words |-> w, token |-> t]

Headers == {Header(0, NoToken), Header(1, NoToken)} \cup {Header(2, t) : t \in Tokens}

\* jwt.verify(token, JWT_SECRET) returns (TRUE) or throws (FALSE)
VerifyUnchecked(t) == TRUE
Verify(t) == t.sig = "JWT_SECRET" /\ t.age = "fresh"

\* authenticateToken: the status it answers with, 0 when it calls next()
authenticateToken(h) ==
  IF h.words < 2 THEN [status |-> 401, user |-> ""]
  ELSE IF Verify(h.token) THEN [status |-> 0, user |-> h.token.email]
  ELSE [status |-> 403, user |-> ""]

\* ------------------------------------------------------------------ requests
NoResp ==
  [status |-> 0, error |-> "", emails |-> <<>>, count |-> 0, batchNumber |-> 0,
   isComplete |-> FALSE, totalFetched |-> 0, totalExpected |-> 0, newestDate |-> 0,
   token |-> NoToken]

\* res.json({success: true, emails, count, ...})
OkRespMiscount(emails) ==
  [NoResp EXCEPT !.status = 200, !.emails = emails, !.count = Len(emails) + 1]
OkResp(emails) == [NoResp EXCEPT !.status = 200, !.emails = emails, !.count = Len(emails)]

\* asyncHandler passes the error to next and the error middleware of the
\* server answers: status 500 with the error's message
ErrSwallowed(kind) == NoResp
ErrResp(kind) == [NoResp EXCEPT !.status = 500, !.error = kind]

\* res.status(status).json({error})
StatusResp(status, error) == [NoResp EXCEPT !.status = status, !.error = error]

\* POST /api/auth/login: the answer when fetchUserEmails rejects, and the
\* answer with the token when it resolves
LoginLenient(kind) == [NoResp EXCEPT !.status = 200, !.token = generateToken("u")]
LoginFailed(kind) == [NoResp EXCEPT !.status = 401, !.error = kind]

LoginOk == [NoResp EXCEPT !.status = 200, !.token = generateToken("u")]

\* the answer to a request whose retrieval rejects
Rejection(ep, kind) == IF ep = "login" THEN LoginFailed(kind) ELSE ErrResp(kind)

\* ep: endpoint; pc: position of the retrieval and of the handler;
\* sess: the Imap connection of this request; deadline: the 180 s timer;
\* ret: how fetchUserEmails settled; emails: the array filled by the parsers;
\* pend: fetched messages whose parse has not finished; work: the array the
\* enrichment loop runs over; alias: work is the very array `emails`;
\* i: loop index; grp: tasks of the current group; out: processedEmails;
\* seen (history): the identities the cache held when the request arrived;
\* hdr: the Authorization header of the request; cred: the mail server accepts
\* the credentials of the request; body: the request body holds the fields the
\* handler requires (the password; for /generate-reply originalSubject,
\* originalBody and userPrompt)
IdleReq ==
  [ep |-> "none", pc |-> "idle", sess |-> "none", deadline |-> "off", ret |-> "none",
   bn |-> 0, known |-> {}, since |-> 0, seen |-> {},
   emails |-> <<>>, pend |-> {}, work |-> <<>>, alias |-> FALSE,
   i |-> 0, grp |-> <<>>, out |-> <<>>, lim |-> 0, resp |-> NoResp,
   hdr |-> Header(0, NoToken), cred |-> TRUE, body |-> TRUE]

\* "fetch" stands for GET / and POST /fetch, whose handlers are the same code
Endpoints == {"fetch", "new", "prog"}

\* ------------------------------------------------------- enrichment loop
\* One task of a group, run up to its first suspension: the cache lookup and,
\* on a miss, the call of analyzeEmail, which suspends on the provider.
AlwaysMiss(e, ca) == [e |-> e, st |-> "wait", a |-> Unable]
HitReturnsDefault(e, ca) ==
  [e |-> e, st |-> IF e.id \in DOMAIN ca THEN "done" ELSE "wait", a |-> Unable]
StartTask(e, ca) ==
  IF e.id \in DOMAIN ca
  THEN [e |-> e, st |-> "done", a |-> ca[e.id]]
  ELSE [e |-> e, st |-> "wait", a |-> Unable]

\* batch.map(async (email) => ...): every task of the group starts before any resumes
StartGroup(members, ca) == [k \in 1..Len(members) |-> StartTask(members[k], ca)]

WaitingFirst(g) == {k \in 1..Len(g) : g[k].st = "wait" /\ k = 1}
Waiting(g) == {k \in 1..Len(g) : g[k].st = "wait"}

Results(g) == [k \in 1..Len(g) |-> Enriched(g[k].e, g[k].a)]

\* analyzeEmail is entered once for every task that missed
RECURSIVE CountCalls(_, _)
CountCalls(cl, g) ==
  IF g = <<>> THEN cl
  ELSE CountCalls(IF Head(g).st = "wait" THEN Bump(cl, Head(g).e.id) ELSE cl, Tail(g))

Cleared(q) ==
  [q EXCEPT !.pc = "done", !.emails = <<>>, !.pend = {}, !.work = <<>>,
            !.alias = FALSE, !.i = 0, !.grp = <<>>, !.out = <<>>, !.lim = 0]

\* const isComplete = startIndex + batch.length >= limitedEmails.length
PageCompleteStrict(consumed, available) == consumed > available
PageComplete(consumed, available) == consumed >= available

\* the code after the loop: sort processedEmails and send the response
Finish(q) ==
  LET sorted == SortByDate(q.out)
      start == q.bn * BATCH_SIZE
      resp ==
        CASE q.ep = "new" ->
               [OkResp(sorted) EXCEPT !.newestDate =
                  IF Len(sorted) > 0 THEN sorted[Len(sorted)].date ELSE q.since]
          [] q.ep = "prog" ->
               [OkResp(sorted) EXCEPT !.batchNumber = q.bn + 1,
                  !.isComplete = PageComplete(start + Len(q.work), q.lim),
                  !.totalFetched = start + Len(sorted),
                  !.totalExpected = q.lim]
          [] OTHER -> OkResp(sorted)
  IN [Cleared(q) EXCEPT !.resp = resp]

\* for (i = 0; i < work.length; i += 2) { await Promise.all(group) ; push }:
\* runs until a task suspends on the provider or the response is sent
RECURSIVE Advance(_, _, _)
Advance(q, ca, cl) ==
  IF q.i >= Len(q.work) THEN [q |-> Finish(q), calls |-> cl]
  ELSE LET g == StartGroup(Slice(q.work, q.i, q.i + SUB_BATCH), ca)
           cl2 == CountCalls(cl, g)
       IN IF Waiting(g) # {}
          THEN [q |-> [q EXCEPT !.pc = "enriching", !.grp = g], calls |-> cl2]
          ELSE Advance([q EXCEPT !.out = @ \o Results(g), !.i = @ + SUB_BATCH,
                                 !.grp = <<>>], ca, cl2)

\* rawEmails.filter(email => !knownEmailIds.includes(email.id))
KeepKnown(raw, known) == raw
FilterById(raw, known) == SelectSeq(raw, LAMBDA e : e.id \notin known)

\* rawEmails.filter(email => new Date(email.date) > since)
FilterByDate(raw, since) == SelectSeq(raw, LAMBDA e : e.date > since)

\* the handler from the return of fetchUserEmails to its first suspension
Deliver(q, ca, cl) ==
  LET raw == q.emails
      q0 == [q EXCEPT !.ret = "ok", !.emails = <<>>]
  IN CASE q.ep = "fetch" ->
            IF Len(raw) = 0
            THEN [q |-> [Cleared(q0) EXCEPT !.resp = OkResp(<<>>)], calls |-> cl]
            ELSE Advance([q0 EXCEPT !.work = raw, !.alias = TRUE], ca, cl)
       [] q.ep = "new" ->
            IF q.known # {}
            THEN Advance([q0 EXCEPT
                            !.work = SortByDate(FilterById(raw, q.known)),
                            !.pend = {}], ca, cl)
            ELSE IF q.since # 0
            THEN Advance([q0 EXCEPT
                            !.work = SortByDate(FilterByDate(raw, q.since)),
                            !.pend = {}], ca, cl)
            ELSE Advance([q0 EXCEPT !.work = SortByDate(raw), !.alias = TRUE], ca, cl)
       [] q.ep = "login" -> [q |-> [Cleared(q0) EXCEPT !.resp = LoginOk], calls |-> cl]
       [] OTHER ->
            LET limited == Slice(raw, 0, TOTAL_EMAILS)
                start == q.bn * BATCH_SIZE
                done == [OkResp(<<>>) EXCEPT !.isComplete = TRUE,
                           !.totalFetched = Len(limited), !.totalExpected = Len(limited)]
            IN IF Len(limited) = 0 \/ start >= Len(limited)
               THEN [q |-> [Cleared(q0) EXCEPT !.resp = done], calls |-> cl]
               ELSE Advance([q0 EXCEPT !.work = Slice(limited, start, start + BATCH_SIZE),
                                       !.lim = Len(limited), !.pend = {}], ca, cl)

\* fetchUserEmails rejects: asyncHandler passes the error on and the error
\* middleware answers 500 (the login handler catches the error and answers 401)
FailRetry(q, kind) == [q EXCEPT !.pc = "connecting", !.sess = "connecting"]
Fail(q, kind) == [Cleared(q) EXCEPT !.ret = kind, !.resp = Rejection(q.ep, kind)]

\* the retrieval ends (resolve or reject of fetchPromise) with the session in state s
EndRetrieval(q, kind, s, ca, cl) ==
  LET q1 == [q EXCEPT !.sess = s]
  IN IF q.ret # "none" THEN [q |-> Cleared(q1), calls |-> cl]
     ELSE IF kind = "ok" THEN Deliver(q1, ca, cl)
     ELSE [q |-> Fail(q1, kind), calls |-> cl]

\* ------------------------------------------------------ retrieval actions
\* the handler up to `await fetchUserEmails`: the 180 s timer is started and
\* connectToIMAP creates the connection and calls imap.connect()
Started(ep, bn, known, since) ==
  [IdleReq EXCEPT !.ep = ep, !.pc = "connecting", !.sess = "connecting",
                  !.deadline = "armed", !.bn = bn, !.known = known, !.since = since,
                  !.seen = DOMAIN cache]

StartRequest(r, ep, bn, known, since) ==
  /\ req[r].pc = "idle"
  /\ req' = [req EXCEPT ![r] = Started(ep, bn, known, since)]
  /\ issued' = issued + 1

\* imap.once('ready'): connectToIMAP resolves and fetchEmails calls imap.openBox
ConnReady(r) ==
  /\ req[r].pc = "connecting"
  /\ req[r].cred
  /\ req' = [req EXCEPT ![r].pc = "opening", ![r].sess = "open"]
  /\ UNCHANGED <<mailbox, cache, calls, writes, issued, client, unit>>

\* imap.once('error'): connectToIMAP rejects; nothing ends the connection
ConnError(r) ==
  /\ req[r].pc = "connecting"
  /\ req' = [req EXCEPT ![r] = EndRetrieval(@, "connError", "error", cache, calls).q]
  /\ UNCHANGED <<mailbox, cache, calls, writes, issued, client, unit>>

\* the 30 s connection timer: imap.end() and reject
ConnTimeout(r) ==
  /\ req[r].pc = "connecting"
  /\ req' = [req EXCEPT ![r] = EndRetrieval(@, "connTimeout", "ended", cache, calls).q]
  /\ UNCHANGED <<mailbox, cache, calls, writes, issued, client, unit>>

\* openBox calls back without error: imap.search is issued
OpenBoxOk(r) ==
  /\ req[r].pc = "opening"
  /\ req' = [req EXCEPT ![r].pc = "searching"]
  /\ UNCHANGED <<mailbox, cache, calls, writes, issued, client, unit>>

\* openBox calls back with an error: reject, and the catch block ends the session
OpenBoxError(r) ==
  /\ req[r].pc = "opening"
  /\ req' = [req EXCEPT ![r] = EndRetrieval(@, "openError", "ended", cache, calls).q]
  /\ UNCHANGED <<mailbox, cache, calls, writes, issued, client, unit>>

\* search calls back with an error: reject, and the catch block ends the session
SearchError(r) ==
  /\ req[r].pc = "searching"
  /\ req' = [req EXCEPT ![r] = EndRetrieval(@, "searchError", "ended", cache, calls).q]
  /\ UNCHANGED <<mailbox, cache, calls, writes, issued, client, unit>>

\* the sequence numbers reported by the search
SearchResults == [k \in 1..Len(mailbox) |-> k]

\* results.slice().reverse().slice(0, 40)
Selected(results) == Slice(Reverse(results), 0, LAST_N)

\* search calls back with its results.  No result: fetchEmailDetails resolves
\* with [] at once (and does not end the session).  Otherwise imap.fetch is
\* issued and the 45 s timer started.
SearchOk(r) ==
  /\ req[r].pc = "searching"
  /\ LET results == SearchResults
         nxt == IF Len(results) = 0
                THEN EndRetrieval(req[r], "ok", req[r].sess, cache, calls)
                ELSE [q |-> [req[r] EXCEPT !.pc = "fetching",
                                           !.pend = Range(Selected(results))],
                      calls |-> calls]
     IN /\ req' = [req EXCEPT ![r] = nxt.q]
        /\ calls' = nxt.calls
  /\ UNCHANGED <<mailbox, cache, writes, issued, client, unit>>

\* msg.once('end') of message m after `await simpleParser`: the email is pushed
\* on the array, or the parse error is logged and the message dropped.  The
\* array is `emails` of fetchEmailDetails; once fetchEmails has resolved, the
\* handler holds the same array.
ParseDone(r, m) ==
  /\ m \in req[r].pend
  /\ LET e == ParseEmail(mailbox[m], m, Now(issued))
         q == [req[r] EXCEPT !.pend = @ \ {m}]
     IN req' = [req EXCEPT ![r] =
          IF mailbox[m].bad THEN q
          ELSE IF q.pc = "fetching" THEN [q EXCEPT !.emails = Append(@, e)]
          ELSE [q EXCEPT !.work = Append(@, e)]]
  /\ UNCHANGED <<mailbox, cache, calls, writes, issued, client, unit>>

\* fetch.once('end'): clear the timer, imap.end(), resolve(emails)
FetchEnd(r) ==
  /\ req[r].pc = "fetching"
  /\ LET nxt == EndRetrieval(req[r], "ok", "ended", cache, calls)
     IN /\ req' = [req EXCEPT ![r] = nxt.q]
        /\ calls' = nxt.calls
  /\ UNCHANGED <<mailbox, cache, writes, issued, client, unit>>

\* fetch.once('error'): reject, and the catch block ends the session
FetchError(r) ==
  /\ req[r].pc = "fetching"
  /\ req' = [req EXCEPT ![r] = EndRetrieval(@, "fetchError", "ended", cache, calls).q]
  /\ UNCHANGED <<mailbox, cache, calls, writes, issued, client, unit>>

\* the 45 s fetch timer: imap.end() and reject
FetchTimeout(r) ==
  /\ req[r].pc = "fetching"
  /\ req' = [req EXCEPT ![r] = EndRetrieval(@, "fetchTimeout", "ended", cache, calls).q]
  /\ UNCHANGED <<mailbox, cache, calls, writes, issued, client, unit>>

\* the 180 s timer of fetchUserEmails fires: timeoutPromise rejects.  While
\* fetchPromise is pending the race rejects and the request is answered 500;
\* the retrieval itself goes on, its result read by nobody.  Once fetchPromise
\* has settled the rejection has no effect.  (The 30 s timer fires first while
\* connecting.)
OverallTimeoutOff(r) == FALSE /\ UNCHANGED vars
OverallTimeout(r) ==
  /\ req[r].deadline = "armed"
  /\ req[r].resp.status = 0
  /\ req[r].pc \in {"opening", "searching", "fetching", "enriching"}
  /\ req' = [req EXCEPT ![r] =
       IF @.ret = "none"
       THEN [@ EXCEPT !.deadline = "fired", !.ret = "overallTimeout",
                      !.resp = Rejection(req[r].ep, "overallTimeout"), !.emails = <<>>,
                      !.pend = {}]
       ELSE [@ EXCEPT !.deadline = "fired"]]
  /\ UNCHANGED <<mailbox, cache, calls, writes, issued, client, unit>>

\* ------------------------------------------------------ enrichment actions
\* analyzeEmail of task k resolves with a: the task writes the cache entry and
\* returns.  When it was the last task of its group, Promise.all resolves, the
\* results are pushed and the loop goes on.
ProviderAnswer(r, k, a) ==
  /\ req[r].pc = "enriching"
  /\ k \in Waiting(req[r].grp)
  /\ LET q == req[r]
         id == q.grp[k].e.id
         ca == (id :> a) @@ cache
         g == [q.grp EXCEPT ![k].st = "done", ![k].a = a]
         nxt == IF Waiting(g) # {}
                THEN [q |-> [q EXCEPT !.grp = g], calls |-> calls]
                ELSE Advance([q EXCEPT !.out = @ \o Results(g), !.i = @ + SUB_BATCH,
                                       !.grp = <<>>], ca, calls)
     IN /\ cache' = ca
        /\ writes' = Bump(writes, id)
        /\ req' = [req EXCEPT ![r] = nxt.q]
        /\ calls' = nxt.calls
  /\ UNCHANGED <<mailbox, issued, client, unit>>

\* ------------------------------------------------------------- API caller
KnownChoices == SUBSET {<<"mid", 1, 0>>}

\* no sinceDate, or the earliest receipt date
SinceChoices == {0, Min(1, MaxDate)}

\* a request of any authenticated caller to one of the endpoints
Call(r) ==
  /\ \E ep \in Endpoints :
       \E bn \in (IF ep = "prog" THEN 0..1 ELSE {0}) :
         \E known \in (IF ep = "new" THEN KnownChoices ELSE {{}}) :
           \E since \in (IF ep = "new" THEN SinceChoices ELSE {0}) :
             StartRequest(r, ep, bn, known, since)
  /\ UNCHANGED <<mailbox, cache, calls, writes, client, unit>>

\* requests served one after the other
ApiCall(r) ==
  /\ r = 1
  /\ issued < MaxIssued
  /\ Call(r)

\* requests served concurrently: every slot serves one request, and the slots
\* are taken in order; first batch, no known identities and no sinceDate
ConcurrentCall(r) ==
  /\ \A p \in 1..(r - 1) : req[p].pc # "idle"
  /\ \E ep \in Endpoints : StartRequest(r, ep, 0, {}, 0)
  /\ UNCHANGED <<mailbox, cache, calls, writes, client, unit>>

\* the response has been sent and the retrieval is over: the slot is free again
Consume(r) ==
  /\ req[r].resp.status # 0
  /\ req' = [req EXCEPT ![r] = IdleReq]
  /\ UNCHANGED <<mailbox, cache, calls, writes, issued, client, unit>>

NoClient == [pc |-> "off"]

NoUnit == [fn |-> "none"]

MessageKinds == {Message(m, d, 0, FALSE) : m \in 0..1, d \in Dates}

\* messages received at the same time, with and without a Message-ID
ConcKinds == {Message(m, 1, 0, FALSE) : m \in 0..1}

Mailboxes(kinds, n) == UNION {[1..k -> kinds] : k \in 0..n}

InitServer ==
  /\ req = [r \in Reqs |-> IdleReq]
  /\ cache = <<>>
  /\ calls = <<>>
  /\ writes = <<>>
  /\ issued = 0
  /\ client = NoClient
  /\ unit = NoUnit

Init ==
  /\ mailbox \in Mailboxes(MessageKinds, MaxMail)
  /\ InitServer

Parse(r) == \E m \in 1..Len(mailbox) : ParseDone(r, m)

Provider(r) == \E k \in 1..SUB_BATCH : \E a \in AnalysisResults : ProviderAnswer(r, k, a)

Retrieve(r) == ConnReady(r) \/ OpenBoxOk(r) \/ SearchOk(r) \/ Parse(r) \/ FetchEnd(r)

Faults(r) ==
  \/ ConnError(r) \/ ConnTimeout(r) \/ OpenBoxError(r) \/ SearchError(r)
  \/ FetchError(r) \/ FetchTimeout(r) \/ OverallTimeout(r)

\* the server under requests that follow one another, with every fault of the
\* mail server and every time-out
Next ==
  \E r \in Reqs : ApiCall(r) \/ Retrieve(r) \/ Faults(r) \/ Provider(r) \/ Consume(r)

Spec == Init /\ [][Next]_vars

\* the server under concurrent requests, the mail server answering every command
InitConc ==
  /\ mailbox \in Mailboxes(ConcKinds, MaxConcMail)
  /\ InitServer

NextConc == \E r \in Reqs : ConcurrentCall(r) \/ Retrieve(r) \/ Provider(r)

SpecConc == InitConc /\ [][NextConc]_vars

\* messages without a Message-ID: with no date at all, with the date of the
\* server only, with the Date header only
DatelessKinds == {Message(0, 0, 0, FALSE), Message(0, 1, 0, FALSE), Message(0, 0, 1, FALSE)}

\* the server under concurrent requests over a mailbox of such messages
InitIdent ==
  /\ mailbox \in Mailboxes(DatelessKinds, MaxConcMail)
  /\ InitServer

SpecIdent == InitIdent /\ [][NextConc]_vars

\* messages that simpleParser parses and messages that it rejects
ParseKinds == {Message(0, 1, 0, b) : b \in BOOLEAN}

\* the server under concurrent requests over a mailbox of such messages
InitParse ==
  /\ mailbox \in Mailboxes(ParseKinds, MaxConcMail)
  /\ InitServer

SpecParse == InitParse /\ [][NextConc]_vars

\* ------------------------------------------------------------ the whole API
\* the endpoints of /api/emails: every one of them is mounted behind
\* authenticateToken
Protected == Endpoints \cup {"reply", "send"}

\* the handler of an endpoint up to its first await
Handler(ep) ==
  CASE ep = "reply" -> [IdleReq EXCEPT !.ep = ep, !.pc = "drafting"]
    [] ep = "send" -> [IdleReq EXCEPT !.ep = ep, !.pc = "sending"]
    [] OTHER -> Started(ep, 0, {}, 0)

\* if (!password) return res.status(400)...: the test of the required fields
RequiredSkipped(b) == TRUE
Required(b) == b

\* a request to /api/emails arrives: authenticateToken answers it, or calls
\* next() and the handler runs, which answers 400 when a required field is
\* missing
Arrive(r) ==
  /\ r = 1
  /\ issued < MaxIssued
  /\ req[r].pc = "idle"
  /\ \E ep \in Protected : \E h \in Headers : \E b \in BOOLEAN :
       LET a == authenticateToken(h)
       IN req' = [req EXCEPT ![r] =
            IF a.status # 0
            THEN [IdleReq EXCEPT !.ep = ep, !.pc = "done", !.hdr = h, !.body = b,
                                 !.resp = StatusResp(a.status, "token")]
            ELSE IF ~Required(b)
            THEN [IdleReq EXCEPT !.ep = ep, !.pc = "done", !.hdr = h, !.body = b,
                                 !.resp = StatusResp(400, "required")]
            ELSE [Handler(ep) EXCEPT !.hdr = h, !.body = b]]
  /\ issued' = issued + 1
  /\ UNCHANGED <<mailbox, cache, calls, writes, client, unit>>

\* POST /api/auth/login arrives.  Without email or password it is answered
\* 400; otherwise fetchUserEmails is called with the submitted credentials
Login(r) ==
  /\ r = 1
  /\ issued < MaxIssued
  /\ req[r].pc = "idle"
  /\ \E fields \in BOOLEAN : \E cred \in BOOLEAN :
       req' = [req EXCEPT ![r] =
         IF ~fields
         THEN [IdleReq EXCEPT !.ep = "login", !.pc = "done",
                              !.resp = StatusResp(400, "required")]
         ELSE [Started("login", 0, {}, 0) EXCEPT !.cred = cred]]
  /\ issued' = issued + 1
  /\ UNCHANGED <<mailbox, cache, calls, writes, client, unit>>

\* /generate-reply: generateEmailReply settles and the handler answers
ReplyAnswer(r) ==
  /\ req[r].pc = "drafting"
  /\ \E inp \in {i \in ReplyInputs : i.fields} : \E o \in ReplyOutcomes :
       LET a == GenerateReply(inp, o)
       IN req' = [req EXCEPT ![r].pc = "done", ![r].resp = StatusResp(a.status, a.error)]
  /\ UNCHANGED <<mailbox, cache, calls, writes, issued, client, unit>>

\* /send: sendEmail settles (ok: the mail was accepted) and the handler answers
SendAnswer(r) ==
  /\ req[r].pc = "sending"
  /\ \E ok \in BOOLEAN :
       req' = [req EXCEPT ![r].pc = "done",
                          ![r].resp = IF ok THEN StatusResp(200, "")
                                      ELSE StatusResp(500, "Failed to send email")]
  /\ UNCHANGED <<mailbox, cache, calls, writes, issued, client, unit>>

\* the server under the requests of any caller, one after the other
NextApi ==
  \E r \in Reqs :
    \/ Arrive(r) \/ Login(r) \/ Retrieve(r) \/ Faults(r) \/ Provider(r)
    \/ ReplyAnswer(r) \/ SendAnswer(r) \/ Consume(r)

SpecApi == InitConc /\ [][NextApi]_vars

\* the delta refresh alone: requests to /fetch-new that follow one another, with
\* any set of known identities and any sinceDate, both together included
DeltaKnown == SUBSET {<<"mid", 1, 0>>, <<"email", 1, 1>>}

DeltaCall(r) ==
  /\ r = 1
  /\ issued < MaxIssued
  /\ \E known \in DeltaKnown : \E since \in 0..MaxDate : StartRequest(r, "new", 0, known, since)
  /\ UNCHANGED <<mailbox, cache, calls, writes, client, unit>>

InitDelta ==
  /\ mailbox \in Mailboxes(MessageKinds, MaxConcMail)
  /\ InitServer

NextDelta == \E r \in Reqs : DeltaCall(r) \/ Retrieve(r) \/ Provider(r) \/ Consume(r)

SpecDelta == InitDelta /\ [][NextDelta]_vars

\* messages with a text: the provider's analysis of a message is a function of
\* its subject and body
Texts == 1..MaxText

Mail(m, i, t) == [mid |-> m, idate |-> i, hdate |-> 0, bad |-> FALSE, text |-> t]

TextKinds == {Mail(m, 1, t) : m \in 0..1, t \in Texts}

\* analyzeEmail(email.subject, email.body) when the provider answers
AnalysisOf(t) ==
  [category |-> "General", summary |-> IF t = 1 THEN "first text" ELSE "other text",
   events |-> <<>>]

ProviderOf(r) ==
  \E k \in 1..SUB_BATCH :
    /\ k \in Waiting(req[r].grp)
    /\ ProviderAnswer(r, k, AnalysisOf(mailbox[req[r].grp[k].e.seq].text))

\* the server under requests that follow one another over a mailbox of such
\* messages, the mail server and the provider answering every time
InitTexts ==
  /\ mailbox \in Mailboxes(TextKinds, MaxConcMail)
  /\ InitServer

NextTexts == \E r \in Reqs : ApiCall(r) \/ Retrieve(r) \/ ProviderOf(r) \/ Consume(r)

SpecTexts == InitTexts /\ [][NextTexts]_vars

\* a chain of delta refreshes: the first one without sinceDate, every later one
\* with the newestDate of the response before it as its sinceDate
FirstDelta(r) ==
  /\ r = 1
  /\ issued = 0
  /\ \E known \in DeltaKnown : StartRequest(r, "new", 0, known, 0)
  /\ UNCHANGED <<mailbox, cache, calls, writes, client, unit>>

ChainedDelta(r) ==
  /\ issued < MaxIssued
  /\ req[r].ep = "new"
  /\ req[r].resp.status = 200
  /\ \E known \in DeltaKnown :
       req' = [req EXCEPT ![r] = Started("new", 0, known, req[r].resp.newestDate)]
  /\ issued' = issued + 1
  /\ UNCHANGED <<mailbox, cache, calls, writes, client, unit>>

NextChain == \E r \in Reqs : FirstDelta(r) \/ ChainedDelta(r) \/ Retrieve(r) \/ Provider(r)

SpecChain == InitDelta /\ [][NextChain]_vars

\* the server under requests that follow one another, with a mail server that
\* may stop answering at any point: only the timers of setTimeout are sure to
\* fire
Timers == \A r \in Reqs : WF_vars(ConnTimeout(r)) /\ WF_vars(OverallTimeout(r))

SpecLive == InitConc /\ [][Next]_vars /\ Timers

\* ------------------------------------------------------------------ client
\* The Home component.  pc: position of fetchEmails ("request": about to post
\* the next batch request, "waiting": awaiting its response, "loaded": the loop
\* is over); bn, allEmails, isComplete: locals of fetchEmails; emails: the
\* React state; refreshing: a refreshEmails call awaits its response;
\* refreshes: refreshes started.  History: hist, the isComplete of every batch
\* response; concat, the emails of the batch responses one after the other;
\* got, the identities received in responses; prior, got when the refresh
\* in flight was started.
InitialClient ==
  [pc |-> "request", bn |-> 0, allEmails |-> <<>>, isComplete |-> FALSE,
   emails |-> <<>>, refreshing |-> FALSE, refreshes |-> 0,
   hist |-> <<>>, concat |-> <<>>, got |-> {}, prior |-> {}]

Ids(s) == {s[k].id : k \in 1..Len(s)}

\* emails.reduce(...): the latest date of the list, null (0) for the empty list
NewestDate(s) ==
  IF Len(s) = 0 THEN 0
  ELSE CHOOSE d \in {s[k].date : k \in 1..Len(s)} : \A k \in 1..Len(s) : s[k].date <= d

LoaderSlot == 1
RefreshSlot == 2

\* fetchEmails: while (!isComplete && allEmails.length < 40) post
\* /fetch-progressive with the current batchNumber
LoadRequest ==
  /\ client.pc = "request"
  /\ StartRequest(LoaderSlot, "prog", client.bn, {}, 0)
  /\ client' = [client EXCEPT !.pc = "waiting"]
  /\ UNCHANGED <<mailbox, cache, calls, writes, unit>>

\* fetchEmails: the response of the batch request.  An error response breaks
\* the loop; otherwise the emails not yet in allEmails are appended, the state
\* is set, batchNumber incremented and the loop condition evaluated.  After the
\* loop allEmails is sorted and set.
LoadResponse ==
  /\ client.pc = "waiting"
  /\ req[LoaderSlot].resp.status # 0
  /\ LET resp == req[LoaderSlot].resp
         fresh == SelectSeq(resp.emails, LAMBDA e : e.id \notin Ids(client.allEmails))
         all == client.allEmails \o fresh
         complete == resp.isComplete \/ Len(all) >= TOTAL_EMAILS
     IN client' =
          IF resp.status # 200
          THEN [client EXCEPT !.pc = "loaded", !.allEmails = SortByDate(@),
                              !.emails = SortByDate(client.allEmails)]
          ELSE IF complete \/ Len(all) >= TOTAL_EMAILS
          THEN [client EXCEPT !.pc = "loaded", !.allEmails = SortByDate(all),
                              !.emails = SortByDate(all), !.isComplete = complete,
                              !.bn = @ + 1, !.hist = Append(@, resp.isComplete),
                              !.concat = @ \o resp.emails, !.got = @ \cup Ids(resp.emails)]
          ELSE [client EXCEPT !.pc = "request", !.allEmails = all, !.emails = all,
                              !.isComplete = complete,
                              !.bn = @ + 1, !.hist = Append(@, resp.isComplete),
                              !.concat = @ \o resp.emails, !.got = @ \cup Ids(resp.emails)]
  /\ req' = [req EXCEPT ![LoaderSlot] = IdleReq]
  /\ UNCHANGED <<mailbox, cache, calls, writes, issued, unit>>

\* refreshEmails up to its fetch: post /fetch-new with the identities and the
\* newest date of the emails held (here: once the initial load is over)
RefreshRequest ==
  /\ client.pc = "loaded"
  /\ ~client.refreshing
  /\ client.refreshes < MaxRefresh
  /\ StartRequest(RefreshSlot, "new", 0, Ids(client.emails), NewestDate(client.emails))
  /\ client' = [client EXCEPT !.refreshing = TRUE, !.refreshes = @ + 1, !.prior = client.got]
  /\ UNCHANGED <<mailbox, cache, calls, writes, unit>>

\* refreshEmails: the response.  New emails whose id the list does not hold
\* are appended and the list is sorted.
RefreshResponse ==
  /\ client.refreshing
  /\ req[RefreshSlot].resp.status # 0
  /\ LET resp == req[RefreshSlot].resp
         unique == SelectSeq(resp.emails, LAMBDA e : e.id \notin Ids(client.emails))
     IN client' =
          IF resp.status # 200 \/ Len(resp.emails) = 0 \/ Len(unique) = 0
          THEN [client EXCEPT !.refreshing = FALSE, !.got = @ \cup Ids(resp.emails)]
          ELSE [client EXCEPT !.refreshing = FALSE, !.got = @ \cup Ids(resp.emails),
                              !.emails = SortByDate(client.emails \o unique)]
  /\ req' = [req EXCEPT ![RefreshSlot] = IdleReq]
  /\ UNCHANGED <<mailbox, cache, calls, writes, issued, unit>>

\* a mailbox of n messages with their own Message-IDs, received one after the other
PagingMailbox(n) == [k \in 1..n |-> Message(k, k, 0, FALSE)]

InitClient ==
  /\ mailbox \in {PagingMailbox(n) : n \in 0..MaxPagingMail}
  /\ req = [r \in Reqs |-> IdleReq]
  /\ cache = <<>>
  /\ calls = <<>>
  /\ writes = <<>>
  /\ issued = 0
  /\ client = InitialClient
  /\ unit = NoUnit

\* the provider answers every analysis the same way
ProviderOk(r) == \E k \in 1..SUB_BATCH : ProviderAnswer(r, k, Unable)

\* the Home component loading and then refreshing, the mail server answering
\* every command
NextClient ==
  \/ LoadRequest \/ LoadResponse \/ RefreshRequest \/ RefreshResponse
  \/ \E r \in Reqs : Retrieve(r) \/ ProviderOk(r)

SpecClient == InitClient /\ [][NextClient]_vars

\* refreshEmails started while fetchEmails is still in its loop: loading is set
\* to false after the first batch, and from then on the refresh button, the
\* 30 s poll and the visibility handler call refreshEmails
RefreshDuringLoad ==
  /\ client.pc \in {"request", "waiting"}
  /\ client.bn >= 1
  /\ ~client.refreshing
  /\ client.refreshes < MaxRefresh
  /\ StartRequest(RefreshSlot, "new", 0, Ids(client.emails), NewestDate(client.emails))
  /\ client' = [client EXCEPT !.refreshing = TRUE, !.refreshes = @ + 1, !.prior = client.got]
  /\ UNCHANGED <<mailbox, cache, calls, writes, unit>>

\* the Home component with refreshes during and after the initial load
NextOverlap == NextClient \/ RefreshDuringLoad

\* a mailbox that takes the loader more than one batch
InitOverlap ==
  /\ mailbox = PagingMailbox(MaxPagingMail)
  /\ req = [r \in Reqs |-> IdleReq]
  /\ cache = <<>>
  /\ calls = <<>>
  /\ writes = <<>>
  /\ issued = 0
  /\ client = InitialClient
  /\ unit = NoUnit

SpecOverlap == InitOverlap /\ [][NextOverlap]_vars

\* a mailbox of n messages received one after the other, every other one with
\* the same Message-ID (copies of one mail)
CopiesMailbox(n) == [k \in 1..n |-> Message(1 + (k % 2), k, 0, FALSE)]

InitCopies ==
  /\ mailbox \in {CopiesMailbox(n) : n \in 0..MaxPagingMail}
  /\ req = [r \in Reqs |-> IdleReq]
  /\ cache = <<>>
  /\ calls = <<>>
  /\ writes = <<>>
  /\ issued = 0
  /\ client = InitialClient
  /\ unit = NoUnit

\* the Home component over a mailbox that holds copies
SpecCopies == InitCopies /\ [][NextClient]_vars

\* ------------------------------------------------------ function specifications
\* The functions whose result depends on their arguments alone, applied to
\* every argument of a bounded set.

\* the sequence numbers of a mailbox of n messages as a search may report them:
\* ascending, descending, or ascending from the second message on with the
\* first one last
Ascending(n) == [k \in 1..n |-> k]
SearchOrders(n) ==
  {Ascending(n), Reverse(Ascending(n)), [k \in 1..n |-> (k % n) + 1]}

ApplyAnalyze ==
  /\ unit.fn = "none"
  /\ \E inp \in AnalyzeInputs : \E o \in ProviderOutcomes :
       unit' = [fn |-> "analyzeEmail", inp |-> inp, out |-> o, val |-> analyzeEmail(inp, o)]
  /\ UNCHANGED <<mailbox, req, cache, calls, writes, issued, client>>

ApplySelect ==
  /\ unit.fn = "none"
  /\ \E n \in 0..MaxFound : \E results \in SearchOrders(n) :
       unit' = [fn |-> "fetchEmails", results |-> results, val |-> Selected(results)]
  /\ UNCHANGED <<mailbox, req, cache, calls, writes, issued, client>>

ApplyReply ==
  /\ unit.fn = "none"
  /\ \E inp \in ReplyInputs : \E o \in ReplyOutcomes :
       unit' = [fn |-> "generate-reply", inp |-> inp, out |-> o,
                reply |-> generateEmailReply(inp, o), val |-> GenerateReply(inp, o)]
  /\ UNCHANGED <<mailbox, req, cache, calls, writes, issued, client>>

\* the handler of /fetch-progressive from the return of fetchUserEmails on,
\* over n retrieved messages that are all in the cache: it runs to its response
\* without suspending
Retrieved(n) == [k \in 1..n |-> ParseEmail(Message(0, 1, 0, FALSE), k, 0)]

ApplyPage ==
  /\ unit.fn = "none"
  /\ \E n \in 0..MaxFound : \E bn \in 0..MaxBatch :
       LET q == [Started("prog", bn, {}, 0) EXCEPT !.emails = Retrieved(n)]
           ca == [id \in {Retrieved(n)[k].id : k \in 1..n} |-> Unable]
       IN unit' = [fn |-> "fetch-progressive", n |-> n, bn |-> bn,
                   val |-> Deliver(q, ca, <<>>).q.resp]
  /\ UNCHANGED <<mailbox, req, cache, calls, writes, issued, client>>

\* the text sent to the provider, by the length of its parts.
\* s.length > max ? s.substring(0, max) + marker : s
Truncated(len, max, marker) == IF len > max THEN max + marker ELSE len

\* `Subject: ${truncatedSubject}\n\nBody: ${truncatedBody}` of analyzeEmail
AnalyzePrompt(sl, bl) ==
  [subject |-> Truncated(sl, maxSubjectLength, SubjectMarker),
   body |-> Truncated(bl, maxBodyLength, BodyMarker)]

\* `Subject: ${originalSubject}\nBody: ${truncatedOriginal}` of generateEmailReply
ReplyPrompt(sl, bl) ==
  [subject |-> sl, body |-> Truncated(bl, maxOriginalLength, BodyMarker)]

\* lengths at and around every budget, and up to MaxLength
Lengths ==
  {0, MaxLength} \cup
    UNION {{b - 1, b, b + 1} : b \in {maxSubjectLength, maxOriginalLength, maxBodyLength}}

ApplyPrompt ==
  /\ unit.fn = "none"
  /\ \E sl \in Lengths : \E bl \in Lengths :
       \/ unit' = [fn |-> "prompt", op |-> "analyzeEmail", budget |-> maxBodyLength,
                   sl |-> sl, bl |-> bl, val |-> AnalyzePrompt(sl, bl)]
       \/ unit' = [fn |-> "prompt", op |-> "generateEmailReply", budget |-> maxOriginalLength,
                   sl |-> sl, bl |-> bl, val |-> ReplyPrompt(sl, bl)]
  /\ UNCHANGED <<mailbox, req, cache, calls, writes, issued, client>>

\* the date of a message, for every internal date and header date: none,
\* invalid, or a date
DateInputs == {0, InvalidDate} \cup Dates

ApplyDate ==
  /\ unit.fn = "none"
  /\ \E i \in DateInputs : \E h \in DateInputs : \E n \in 0..MaxIssued :
       unit' = [fn |-> "finalDate", idate |-> i, hdate |-> h, now |-> Now(n),
                val |-> ParseEmail(Message(0, i, h, FALSE), 1, Now(n)).date]
  /\ UNCHANGED <<mailbox, req, cache, calls, writes, issued, client>>

InitFn ==
  /\ mailbox = <<>>
  /\ InitServer

NextFn ==
  ApplyAnalyze \/ ApplySelect \/ ApplyReply \/ ApplyPage \/ ApplyDate \/ ApplyPrompt

SpecFn == InitFn /\ [][NextFn]_vars


\* ------------------------------------------------------------------ claims
Identities == DOMAIN calls \cup DOMAIN writes \cup DOMAIN cache

EntryOf(x) == [category |-> x.category, summary |-> x.summary, events |-> x.events]

\* the enriched emails a request holds: finished tasks of the current group,
\* processedEmails and the emails of its response
Produced(q) ==
  {Enriched(q.grp[k].e, q.grp[k].a) : k \in {j \in 1..Len(q.grp) : q.grp[j].st = "done"}}
    \cup Range(q.out) \cup Range(q.resp.emails)

\* C1: a progressive-paging run over a mailbox of n >= 1 messages ends after
\* exactly ceil(n / 4) batch calls; isComplete is true in the last response
\* and false in every earlier one.
C1_PagingEndsAfterCeilCalls ==
  client.pc = "loaded" /\ Len(mailbox) >= 1 =>
    /\ Len(client.hist) = (Len(mailbox) + BATCH_SIZE - 1) \div BATCH_SIZE
    /\ \A k \in 1..Len(client.hist) : client.hist[k] = (k = Len(client.hist))

\* C2: over a full progressive-paging run every message of the mailbox is in
\* the emails of exactly one batch response, and the batches one after the
\* other are the sorted message set.
C2_EveryMessageInExactlyOneBatch ==
  client.pc = "loaded" =>
    /\ \A m \in 1..Len(mailbox) :
         Cardinality({k \in 1..Len(client.concat) : client.concat[k].seq = m}) = 1
    /\ IsSorted(client.concat)

\* C3: a delta refresh whose knownEmailIds are the identities returned by the
\* earlier calls, with no new message on the server, returns no email.
C3_RefreshOfKnownIsEmpty ==
  LET q == req[RefreshSlot]
  IN q.ep = "new" /\ q.resp.status = 200 /\ client.prior # {} /\ q.known = client.prior
       => q.resp.emails = <<>>

\* C4: an identity's cache entry is written at most once in the process
\* lifetime (once the cache holds an entry it is never written again).
C4_EntryWrittenAtMostOnce == \A id \in DOMAIN writes : writes[id] <= 1

\* C5: analyzeEmail is called at most once for every message identity, over
\* all requests and all messages carrying that identity.
C5_AnalyzedAtMostOnce == \A id \in DOMAIN calls : calls[id] <= 1

\* C6: a request that arrives after an identity has been cached (with a
\* provider answer or with the failure default) never has a task for that
\* identity waiting on analyzeEmail, and every enriched email it produces for
\* that identity carries the entry the cache holds at that moment.
C6_NoCallForSeen ==
  \A r \in Reqs : \A k \in 1..Len(req[r].grp) :
    req[r].grp[k].e.id \in req[r].seen => req[r].grp[k].st = "done"

C6_CachedReturned ==
  \A r \in Reqs : \A x \in Produced(req[r])' \ Produced(req[r]) :
    x.id \in req[r].seen /\ req[r].pc # "idle" => EntryOf(x) = cache'[x.id]

C6_CachedAfterFirstEnrichment == [](C6_NoCallForSeen) /\ [][C6_CachedReturned]_vars

C6_Witness ==
  \E r \in Reqs : \E x \in Range(req[r].resp.emails) :
    x.id \in req[r].seen /\ EntryOf(x) = Unable

\* C7: a step never calls analyzeEmail for an identity the cache already
\* holds, and the only steps that write an identity's entry complete a task
\* that had missed the cache for that identity and was waiting on analyzeEmail:
\* processing a cached message leaves the cache as it is.
C7_HitStep ==
  /\ \A id \in DOMAIN cache : Count(calls', id) = Count(calls, id)
  /\ \A id \in DOMAIN cache' :
       (id \notin DOMAIN cache \/ cache'[id] # cache[id] \/ Count(writes', id) # Count(writes, id))
         => \E r \in Reqs : \E k \in Waiting(req[r].grp) : req[r].grp[k].e.id = id

C7_HitLeavesCacheAndCalls == [][C7_HitStep]_vars

C7_Witness ==
  \E r1, r2 \in Reqs :
    /\ r1 # r2
    /\ \E x \in Range(req[r1].resp.emails) : \E y \in Range(req[r2].resp.emails) :
         x.id = y.id /\ Count(calls, x.id) = 1 /\ Count(writes, x.id) = 1

\* C8: the emails of every response are sorted non-decreasing by date.
C8_ResponseSorted == \A r \in Reqs : IsSorted(req[r].resp.emails)

C8_Witness ==
  \E r \in Reqs :
    LET es == req[r].resp.emails
    IN Len(es) >= 2 /\ es[1].date < es[Len(es)].date /\ es[1].seq > es[Len(es)].seq

\* C9: when fetchUserEmails has resolved, or rejected with an error of the
\* inbox selection, the search or the fetch, the session has been ended.
C9_SessionEndedOnReturn ==
  \A r \in Reqs :
    req[r].ret \in {"ok", "openError", "searchError", "fetchError"} => req[r].sess = "ended"

\* C10: a request still running when its 180 s deadline expires is answered
\* with the retrieval time-out error.
C10_DeadlineCoversEnrichment ==
  \A r \in Reqs :
    req[r].deadline = "fired" =>
      req[r].resp.status = 500 /\ req[r].resp.error = "overallTimeout"

\* the provider outcomes that are no parsed object: the call fails, the payload
\* is an error or holds no content, or the content is no JSON object
NoObjectOutcome(o) == o.kind # "content" \/ o.doc.t # "object"

WellFormed(v) ==
  /\ v.category.t = "string" /\ v.category.s \in validCategories
  /\ v.summary.t = "string" /\ v.summary.s # ""
  /\ v.events.t = "array"

C12_CategoryCoerced ==
  unit.fn = "analyzeEmail" /\ unit.inp.content /\ unit.inp.key
    /\ unit.out.kind = "content" /\ unit.out.doc.t = "object" =>
      LET c == unit.out.doc.category
      IN unit.val.value.category =
           IF c \in {JStr(v) : v \in validCategories} THEN c ELSE JStr("General")

C12_Witness ==
  /\ unit.fn = "analyzeEmail" /\ unit.inp.content /\ unit.inp.key
  /\ unit.out.kind = "content" /\ unit.out.doc.t = "object"
  /\ unit.out.doc.category = JStr("Urgent")
  /\ unit.val.value.category = JStr("General")

\* C15: whatever the order in which the search reports the sequence numbers,
\* the sequence numbers selected for fetching are the min(40, total) highest
\* ones (the most recently received messages).
C15_SelectsMostRecent ==
  unit.fn = "fetchEmails" =>
    Range(unit.val) = {k \in Range(unit.results) : k > Len(unit.results) - LAST_N}

\* C18: when reply drafting fails (no API key, failed call, non-success status,
\* error payload, no choices, empty content), generateEmailReply rejects and
\* /generate-reply answers 500 with the error's message and without a draft.
C18_ReplyFailurePropagates ==
  unit.fn = "generate-reply" /\ unit.inp.fields
    /\ (~unit.inp.key \/ unit.out.kind # "content") =>
      /\ unit.reply.raised
      /\ unit.val.status = 500 /\ unit.val.error # "" /\ unit.val.message = unit.reply.error
      /\ unit.val.subject = "" /\ unit.val.body = ""

C18_Witness ==
  /\ unit.fn = "generate-reply" /\ unit.inp.fields /\ unit.inp.key
  /\ unit.out.kind = "noChoices"
  /\ unit.val.status = 500
  /\ unit.val.message = "OpenRouter API returned no choices"

\* C13: two retrievals of the same message without a Message-ID give it the
\* same identity.
C13_IdentityStable ==
  \A r1, r2 \in Reqs :
    \A x \in Range(req[r1].resp.emails) : \A y \in Range(req[r2].resp.emails) :
      x.seq = y.seq /\ mailbox[x.seq].mid = 0 => x.id = y.id

\* C14: over a mailbox with 0 messages, /fetch-progressive with batchNumber 0
\* answers, once the retrieval has resolved, with no email, count 0,
\* isComplete, totalFetched 0 and totalExpected 0, and analyzeEmail is never
\* called.
C14_EmptyMailboxPage ==
  \A r \in Reqs :
    Len(mailbox) = 0 /\ req[r].ep = "prog" /\ req[r].bn = 0 /\ req[r].ret = "ok" =>
      /\ req[r].resp.status = 200
      /\ req[r].resp.emails = <<>> /\ req[r].resp.count = 0
      /\ req[r].resp.isComplete
      /\ req[r].resp.totalFetched = 0 /\ req[r].resp.totalExpected = 0
      /\ DOMAIN calls = {}

C14_Witness ==
  \E r \in Reqs :
    /\ Len(mailbox) = 0 /\ req[r].ep = "prog" /\ req[r].bn = 0 /\ req[r].ret = "ok"
    /\ req[r].resp.status = 200 /\ req[r].resp.isComplete

\* the tasks of the current group that have not settled
Unsettled(q) == {k \in 1..Len(q.grp) : q.grp[k].st = "wait"}

\* the step ends the current group of request r
GroupEnded(r) ==
  req[r].grp # <<>> /\ (req[r].i' # req[r].i \/ req[r].pc' # "enriching")

\* C16: a step that ends a group (the loop goes on to the next group or to the
\* response) settles the last unsettled task of that group, and the result of
\* every task of the group, with the analysis that task obtained, is among the
\* emails the request holds afterwards.
C16_GroupStep ==
  \A r \in Reqs :
    GroupEnded(r) =>
      /\ Cardinality(Unsettled(req[r])) <= 1
      /\ \A k \in 1..Len(req[r].grp) :
           \E x \in Produced(req[r])' :
             /\ x.id = req[r].grp[k].e.id /\ x.seq = req[r].grp[k].e.seq
             /\ (k \notin Unsettled(req[r]) => EntryOf(x) = req[r].grp[k].a)

C16_GroupsInOrder == [][C16_GroupStep]_vars

C16_Witness ==
  \E r \in Reqs :
    /\ req[r].pc = "enriching" /\ req[r].i = SUB_BATCH /\ Len(req[r].out) = SUB_BATCH
    /\ EntryOf(req[r].out[1]) = Unable /\ EntryOf(req[r].out[2]) # Unable
    /\ Count(calls, req[r].out[1].id) = 1 /\ Count(calls, req[r].out[2].id) = 1

RECURSIVE InFlight(_)
InFlight(rs) ==
  IF rs = {} THEN 0
  ELSE LET r == CHOOSE x \in rs : TRUE
       IN Cardinality(Unsettled(req[r])) + InFlight(rs \ {r})

\* C17: at most 2 calls of analyzeEmail are in flight in the process.
C17_AtMostTwoInFlight == InFlight(Reqs) <= SUB_BATCH

\* the header carries a token that this server signed less than 7 days ago
Verified(h) == h.words = 2 /\ h.token.sig = "JWT_SECRET" /\ h.token.age = "fresh"

C20_TokenOnlyAfterRetrieval ==
  \A r \in Reqs :
    req[r].ep = "login" =>
      /\ req[r].resp.token # NoToken =>
           req[r].ret = "ok" /\ req[r].cred /\ req[r].resp.status = 200
      /\ req[r].ret \notin {"none", "ok"} =>
           req[r].resp.status = 401 /\ req[r].resp.token = NoToken

C20_Witness ==
  \E r \in Reqs :
    /\ req[r].ep = "login" /\ req[r].cred /\ req[r].ret = "fetchError"
    /\ req[r].resp.status = 401 /\ req[r].resp.token = NoToken

\* C21: an authenticated request to /fetch, /fetch-new, /fetch-progressive,
\* /send or /generate-reply whose body lacks a required field is answered 400
\* and its handler does nothing more: no session, no retrieval, no task, no
\* drafting, no sending.
C21_MissingFieldRejected ==
  \A r \in Reqs :
    req[r].ep \in Protected /\ Verified(req[r].hdr) /\ ~req[r].body =>
      /\ req[r].pc = "done" /\ req[r].sess = "none" /\ req[r].ret = "none"
      /\ req[r].grp = <<>> /\ req[r].deadline = "off"
      /\ req[r].resp.status = 400

C21_Witness ==
  \E r \in Reqs :
    /\ req[r].ep = "prog" /\ Verified(req[r].hdr) /\ ~req[r].body
    /\ req[r].resp.status = 400

\* C22: the email list of the Home component never holds two entries with the
\* same id.
C22_NoDuplicateIds ==
  \A j, k \in 1..Len(client.emails) : j # k => client.emails[j].id # client.emails[k].id

\* the messages of the mailbox that simpleParser parses (all of them are
\* selected: the mailbox holds fewer than 40 messages)
Parsable == {m \in 1..Len(mailbox) : ~mailbox[m].bad}

\* C23: when fetchUserEmails has resolved, no parse of a fetched message is
\* still to finish, and the list handed over holds every message that parses
\* (seen in totalExpected, the length of the list a /fetch-progressive handler
\* received).
C23_ParsesFinishedOnReturn ==
  \A r \in Reqs :
    req[r].ret = "ok" =>
      /\ req[r].pend = {}
      /\ req[r].ep = "prog" /\ req[r].resp.status = 200 =>
           req[r].resp.totalExpected = Cardinality(Parsable)

\* C24: a message that fails to parse never rejects the retrieval, and the
\* list the retrieval resolves with holds exactly the messages that parse.
C24_BadMessagesDropped ==
  \A r \in Reqs :
    /\ req[r].ret \in {"none", "ok"}
    /\ req[r].resp.status \in {0, 200}
    /\ req[r].ep = "prog" /\ req[r].resp.status = 200 =>
         req[r].resp.totalExpected = Len(mailbox) - Cardinality({m \in 1..Len(mailbox) : mailbox[m].bad})

\* C25: when the retrieval has been rejected by one of the three deadlines
\* (connection 30 s, fetch 45 s, whole retrieval 180 s), the session of that
\* retrieval has been ended and the request is answered with that time-out.
C25_TimeoutEndsSession ==
  \A r \in Reqs :
    req[r].ret \in {"connTimeout", "fetchTimeout", "overallTimeout"} =>
      req[r].sess = "ended" /\ req[r].resp.error = req[r].ret

\* C26: every call of fetchUserEmails settles, whatever the mail server does:
\* a retrieval that has started is eventually resolved or rejected.
C26_AlwaysSettles ==
  \A r \in Reqs : (req[r].pc = "connecting") ~> (req[r].ret # "none")

C26_Witness ==
  \E r \in Reqs :
    req[r].ret = "overallTimeout" /\ req[r].pc = "opening" /\ req[r].resp.status = 500

\* C27: a connection attempt is made only by the step that starts a call, one
\* per call; a retrieval that failed is answered with its error and stays
\* failed; a session that has ended or failed is never used again.
C27_Step ==
  \A r \in Reqs :
    /\ req[r].sess' = "connecting" /\ req[r].sess # "connecting" =>
         req[r].pc = "idle" /\ issued' = issued + 1
    /\ req[r].ret \notin {"none", "ok"} =>
         /\ req[r].resp.error = req[r].ret
         /\ req[r].pc' # "idle" => req[r].ret' = req[r].ret /\ req[r].resp' = req[r].resp
    /\ req[r].sess \in {"ended", "error"} => req[r].sess' \in {req[r].sess, "none"}

C27_OneAttemptNoRetry == [][C27_Step]_vars

C27_Witness ==
  \E r \in Reqs :
    /\ req[r].ret = "searchError" /\ req[r].sess = "ended"
    /\ req[r].resp.status = 500 /\ req[r].resp.error = "searchError"

\* C28: in a delta refresh with a non-empty knownEmailIds, no message whose
\* identity is known is among the messages to enrich, in an enrichment group,
\* among the enriched messages or in the response, and no step of the call
\* calls analyzeEmail or writes the cache for a known identity.
IdsOf(s) == {s[k].id : k \in 1..Len(s)}

C28_Step ==
  \A r \in Reqs :
    req[r].ep = "new" /\ req[r].known # {} =>
      /\ IdsOf(req[r].work) \cap req[r].known = {}
      /\ {req[r].grp[k].e.id : k \in 1..Len(req[r].grp)} \cap req[r].known = {}
      /\ IdsOf(req[r].out) \cap req[r].known = {}
      /\ IdsOf(req[r].resp.emails) \cap req[r].known = {}
      /\ \A id \in req[r].known :
           Count(calls', id) = Count(calls, id) /\ Count(writes', id) = Count(writes, id)

C28_KnownNeverProcessed == [][C28_Step]_vars

\* a delta refresh that knew one of two messages has answered with the other
C28_Witness ==
  \E r \in Reqs :
    /\ req[r].ep = "new" /\ req[r].resp.status = 200
    /\ Len(req[r].resp.emails) = 1 /\ Len(mailbox) = 2
    /\ \E m \in 1..Len(mailbox) :
         /\ ParseEmail(mailbox[m], m, Now(issued)).id \in req[r].known
         /\ req[r].resp.emails[1].seq # m
         /\ req[r].resp.emails[1].id \in DOMAIN writes

\* C29: the messages of a delta-refresh response are the messages of the
\* window whose identity is not known when knownEmailIds is non-empty, else
\* those received after sinceDate when it is supplied, else the whole window.
Selected29(q) ==
  {m \in 1..Len(mailbox) :
     LET e == ParseEmail(mailbox[m], m, Now(issued))
     IN IF q.known # {} THEN e.id \notin q.known
        ELSE IF q.since # 0 THEN e.date > q.since
        ELSE TRUE}

C29_DeltaSet ==
  \A r \in Reqs :
    req[r].ep = "new" /\ req[r].resp.status = 200 =>
      {req[r].resp.emails[k].seq : k \in 1..Len(req[r].resp.emails)} = Selected29(req[r])

\* C30: the newestDate of a delta-refresh response is the latest receipt
\* date among the messages of the window retrieved by the call.
C30_NewestDate ==
  \A r \in Reqs :
    req[r].ep = "new" /\ req[r].resp.status = 200 /\ Len(mailbox) > 0 =>
      /\ \E m \in 1..Len(mailbox) : req[r].resp.newestDate = mailbox[m].idate
      /\ \A m \in 1..Len(mailbox) : req[r].resp.newestDate >= mailbox[m].idate

\* C31: in a chain of delta refreshes, each with the newestDate of the
\* response before it as sinceDate, the newestDate of a response is never
\* earlier than the sinceDate of its request.
C31_NewestDateMonotone ==
  \A r \in Reqs :
    req[r].ep = "new" /\ req[r].resp.status = 200 => req[r].resp.newestDate >= req[r].since

\* C32: for every batchNumber and every number of retrieved messages, the
\* response of /fetch-progressive has count <= 4 and totalFetched <=
\* totalExpected <= 40, isComplete is true exactly when totalFetched >=
\* totalExpected, and a response that is not complete carries the batchNumber
\* of the request plus one.
C32_PageCounters ==
  unit.fn = "fetch-progressive" =>
    LET v == unit.val
    IN /\ v.status = 200
       /\ v.count = Len(v.emails) /\ v.count <= BATCH_SIZE
       /\ v.totalFetched <= v.totalExpected
       /\ v.totalExpected = Min(unit.n, TOTAL_EMAILS)
       /\ v.isComplete <=> (v.totalFetched >= v.totalExpected)
       /\ ~v.isComplete => v.batchNumber = unit.bn + 1

\* the last page of a window cut to forty messages
C32_Witness ==
  /\ unit.fn = "fetch-progressive"
  /\ unit.n > TOTAL_EMAILS /\ (unit.bn + 1) * BATCH_SIZE = TOTAL_EMAILS
  /\ unit.val.count = BATCH_SIZE /\ unit.val.isComplete
  /\ unit.val.totalFetched = TOTAL_EMAILS

\* C33: the enrichment of every message of a response is the analysis of the
\* subject and body of that same message.
C33_EnrichmentOfSameMessage ==
  \A r \in Reqs :
    \A k \in 1..Len(req[r].resp.emails) :
      LET e == req[r].resp.emails[k]
      IN e.summary = AnalysisOf(mailbox[e.seq].text).summary

\* C34: a request to /api/emails whose handler rejects (its retrieval was
\* rejected) is answered with status 500, and a response that has been sent
\* is the only one of its request: it never changes afterwards.
C34_Step ==
  \A r \in Reqs :
    /\ req[r].ep \in Endpoints /\ req[r].ret \notin {"none", "ok"} =>
         req[r].resp.status = 500 /\ req[r].resp.error = req[r].ret
    /\ req[r].resp.status # 0 =>
         req[r].resp' = req[r].resp \/ req[r].pc' = "idle"

C34_RejectionAnsweredOnce == [][C34_Step]_vars

\* the retrieval was rejected by the 180 s deadline and answered 500; the
\* session left open is that of the retrieval still running
C34_Witness ==
  \E r \in Reqs :
    /\ req[r].ep \in Endpoints /\ req[r].ret = "overallTimeout"
    /\ req[r].resp = ErrResp("overallTimeout") /\ req[r].sess = "open"

\* C35 (as stated): the timestamp of a message is its internal date when the
\* server supplied one, otherwise its header date when that is a valid date,
\* otherwise the wall-clock time of parsing; it is always a valid date.
C35_TimestampPriority ==
  unit.fn = "finalDate" =>
    /\ unit.val = (IF unit.idate # 0 THEN unit.idate
                   ELSE IF unit.hdate \notin {0, InvalidDate} THEN unit.hdate
                   ELSE unit.now)
    /\ unit.val # InvalidDate

\* C35 (amended): the timestamp of a message is its internal date when the
\* server supplied a valid one; when the server supplied none, its header
\* date when that is a valid date; in every other case the wall-clock time
\* of parsing; it is always a valid date.
C35_TimestampPriorityValid ==
  unit.fn = "finalDate" =>
    /\ unit.val = (IF unit.idate \notin {0, InvalidDate} THEN unit.idate
                   ELSE IF unit.idate = 0 /\ unit.hdate \notin {0, InvalidDate} THEN unit.hdate
                   ELSE unit.now)
    /\ unit.val \in Dates \cup {unit.now}

\* no internal date and an invalid header date: the wall clock
C35_Witness ==
  /\ unit.fn = "finalDate"
  /\ unit.idate = 0 /\ unit.hdate = InvalidDate /\ unit.val = unit.now

C37_Step ==
  \A id \in Ids(client.emails) \ Ids(client.allEmails) : id \in Ids(client'.emails)

C37_RefreshedEmailsStay == [][C37_Step]_vars

====
